---- MODULE Spec2Model ----
(***************************************************************************)
(* OORParser (modules/module_2/ui_components/oor_parser.py).               *)
(*                                                                         *)
(* A text is a sequence of one-character strings.  The parser instance is  *)
(* the pair of fields entries / total_qty; parse is modelled at character  *)
(* level: str.strip, re.split on [,;], str.split on '-', and Python's      *)
(* int() literal rules (surrounding whitespace, optional sign, single      *)
(* underscores between digits).  The callers of the parser, save_record    *)
(* (modules/module_2/app.py) and the grid's OOR Serial cells               *)
(* (ui_components/enhanced_grid_flet.py), and concurrent parse calls are   *)
(* modelled in specifications of their own.                                *)
(***************************************************************************)
EXTENDS Integers, Sequences, FiniteSets, TLC

\* Longest text handed to parse.
MaxLen == 5

\* Characters the texts are built from: two digits, the hyphen, both
\* separators, a blank, a letter, and the underscore, which int() accepts
\* between digits.
Alphabet == {"1", "2", "-", ",", ";", " ", "a", "_"}

\* entries, total_qty: the fields of the parser instance.
\* oor_text, ret: the text of the latest parse call and what the call
\*   returned ("None" before the first call on the instance).
\* had_true: some parse call on the instance has returned True.
\* out: the latest call of an operation other than parse, if no parse call
\*   followed it: its name, its arguments and what it returned.
\* heap, threads: the parser instances of concurrent callers and the
\*   position of each caller inside its parse call (both empty where one
\*   caller is modelled).
VARIABLES entries, total_qty, oor_text, ret, had_true, out, heap, threads

vars == <<entries, total_qty, oor_text, ret, had_true, out, heap, threads>>

----------------------------------------------------------------------------
\* Character classes and string primitives

\* str.isspace for the characters of the model
is_space(c) == c = " "

\* the digits int() reads
is_digit(c) == c \in {"0", "1", "2", "3", "4", "5", "6", "7", "8", "9"}

digit_value(c) ==
    CASE c = "0" -> 0 [] c = "1" -> 1 [] c = "2" -> 2 [] c = "3" -> 3
      [] c = "4" -> 4 [] c = "5" -> 5 [] c = "6" -> 6 [] c = "7" -> 7
      [] c = "8" -> 8 [] c = "9" -> 9

\* variant: the test finds nothing
contains_never(s, c) == FALSE

\* c in s
contains(s, c) == \E i \in 1..Len(s) : s[i] = c

RECURSIVE lstrip(_)
lstrip(s) == IF s # <<>> /\ is_space(Head(s)) THEN lstrip(Tail(s)) ELSE s

RECURSIVE rstrip(_)
rstrip(s) ==
    IF s # <<>> /\ is_space(s[Len(s)]) THEN rstrip(SubSeq(s, 1, Len(s) - 1)) ELSE s

\* str.strip()
strip(s) == rstrip(lstrip(s))

\* Split s at every character satisfying the separator test: k separators
\* give k + 1 parts, empty parts included (re.split and str.split agree here).
RECURSIVE split_at(_, _, _)
split_at(s, seps, cur) ==
    IF s = <<>> THEN <<cur>>
    ELSE IF Head(s) \in seps THEN <<cur>> \o split_at(Tail(s), seps, <<>>)
    ELSE split_at(Tail(s), seps, Append(cur, Head(s)))

\* the character class of the regular expression r'[,;]'
separators == {",", ";"}

\* re.split(r'[,;]', oor_text)
re_split(s) == split_at(s, separators, <<>>)

\* part.split('-')
split_hyphen(s) == split_at(s, {"-"}, <<>>)

----------------------------------------------------------------------------
\* Python's int(str): the literal may be surrounded by whitespace, may carry
\* one sign, and consists of digits with single underscores between digits.

int_body_ok(b) ==
    /\ b # <<>>
    /\ \A i \in 1..Len(b) : is_digit(b[i]) \/ b[i] = "_"
    /\ is_digit(b[1])
    /\ is_digit(b[Len(b)])
    /\ \A i \in 1..(Len(b) - 1) : ~(b[i] = "_" /\ b[i + 1] = "_")

RECURSIVE int_body_value(_, _)
int_body_value(b, acc) ==
    IF b = <<>> THEN acc
    ELSE IF Head(b) = "_" THEN int_body_value(Tail(b), acc)
    ELSE int_body_value(Tail(b), 10 * acc + digit_value(Head(b)))

\* int(s): [ok |-> FALSE] stands for ValueError
int(s) ==
    LET t == strip(s)
        signed == t # <<>> /\ Head(t) \in {"+", "-"}
        b == IF signed THEN Tail(t) ELSE t
    IN  IF ~int_body_ok(b) THEN [ok |-> FALSE, val |-> 0]
        ELSE [ok |-> TRUE,
              val |-> IF signed /\ Head(t) = "-"
                      THEN 0 - int_body_value(b, 0)
                      ELSE int_body_value(b, 0)]

----------------------------------------------------------------------------
\* OORParser.parse

\* variant: no reset on entry
reset_missing(self) == self

\* self.entries = []; self.total_qty = 0
reset(self) == [entries |-> <<>>, total_qty |-> 0]

\* if not oor_text or not oor_text.strip()
is_blank(text) == text = <<>> \/ strip(text) = <<>>

\* variant: the order of a range is not checked
range_ok_unchecked(start, end) == TRUE

\* variant: a range must be strictly increasing
range_ok_strict(start, end) == start < end

\* if start > end: return False
range_ok(start, end) == ~(start > end)

\* the tuple appended for a range token
range_entry(start, end) == <<start, end>>

\* variant: the difference without the + 1
range_qty_exclusive(start, end) == end - start

\* the quantity a range token adds
range_qty(start, end) == end - start + 1

\* the tuple appended for a single-number token
single_entry(num) == <<num, num>>

\* variant: the new entry is put in front
add_entry_front(self, e, q) ==
    [entries |-> <<e>> \o self.entries, total_qty |-> self.total_qty + q]

\* self.entries.append(e); self.total_qty += q
add_entry(self, e, q) ==
    [entries |-> Append(self.entries, e), total_qty |-> self.total_qty + q]

\* variant: pieces after the second are ignored
range_parts_ok_atleast(range_parts) == Len(range_parts) >= 2

\* len(range_parts) != 2
range_parts_ok(range_parts) == Len(range_parts) = 2

\* variant: no part is skipped
skip_part_never(part) == FALSE

\* if not part: continue
skip_part(part) == part = <<>>

\* "return False" out of the loop: the instance stays as the iterations
\* before left it
return_false(self) == [self |-> self, failed |-> TRUE, raised |-> FALSE]

\* variant: the ValueError of int() is not caught and leaves parse
value_error_uncaught(self) == [self |-> self, failed |-> TRUE, raised |-> TRUE]

\* int() raised ValueError inside the try block: except ValueError: return False
value_error(self) == return_false(self)

\* an iteration that ends normally (continue, or the end of the loop body)
next_part(self) == [self |-> self, failed |-> FALSE, raised |-> FALSE]

\* A range token whose two sides int() has been applied to: start, end are
\* the results of int(range_parts[0].strip()) and int(range_parts[1].strip()).
range_token(self, start, end) ==
    IF ~start.ok \/ ~end.ok THEN value_error(self)
    ELSE IF ~range_ok(start.val, end.val) THEN return_false(self)
    ELSE next_part(add_entry(self, range_entry(start.val, end.val),
                             range_qty(start.val, end.val)))

\* the try block of the range branch, given range_parts = part.split('-')
range_branch(self, range_parts) ==
    IF ~range_parts_ok(range_parts) THEN return_false(self)
    ELSE range_token(self, int(strip(range_parts[1])), int(strip(range_parts[2])))

\* the else branch, given num = int(part.strip())
single_branch(self, num) ==
    IF ~num.ok THEN value_error(self)
    ELSE next_part(add_entry(self, single_entry(num.val), 1))

\* The body of the loop for a part that is stripped and not skipped.
parse_token(self, part) ==
    IF contains(part, "-") THEN range_branch(self, split_hyphen(part))
    ELSE single_branch(self, int(strip(part)))

\* part = part.strip() done: skip the part or parse it
parse_stripped(self, part) ==
    IF skip_part(part) THEN next_part(self)
    ELSE parse_token(self, part)

\* One iteration of the loop over parts.
parse_part(self, raw) == parse_stripped(self, strip(raw))

RECURSIVE parse_loop(_, _)

\* variant: an invalid part is passed over and the loop goes on; the call
\* still returns False at the end
loop_step_skip_invalid(r, rest) ==
    IF r.failed THEN [parse_loop(r.self, rest) EXCEPT !.ret = FALSE]
    ELSE parse_loop(r.self, rest)

\* after one iteration (result r): return False, or go on with the rest
loop_step(r, rest) ==
    IF r.failed THEN [self |-> r.self, ret |-> FALSE, raised |-> r.raised]
    ELSE parse_loop(r.self, rest)

\* for part in parts: ...; return True
parse_loop(self, parts) ==
    IF parts = <<>> THEN [self |-> self, ret |-> TRUE, raised |-> FALSE]
    ELSE loop_step(parse_part(self, Head(parts)), Tail(parts))

\* parse(self, oor_text): the instance after the call and the value returned
\* (raised = TRUE: the call ended in an exception instead of returning)
parse(self, text) ==
    IF is_blank(text) THEN [self |-> reset(self), ret |-> TRUE, raised |-> FALSE]
    ELSE parse_loop(reset(self), re_split(text))

----------------------------------------------------------------------------
\* str(n) and str.join, on texts as sequences of characters

digit_char(d) ==
    CASE d = 0 -> "0" [] d = 1 -> "1" [] d = 2 -> "2" [] d = 3 -> "3"
      [] d = 4 -> "4" [] d = 5 -> "5" [] d = 6 -> "6" [] d = 7 -> "7"
      [] d = 8 -> "8" [] d = 9 -> "9"

RECURSIVE str_digits(_)
str_digits(n) ==
    IF n < 10 THEN << digit_char(n) >>
    ELSE Append(str_digits(n \div 10), digit_char(n % 10))

\* str(n) for an integer n
str(n) == IF n < 0 THEN << "-" >> \o str_digits(0 - n) ELSE str_digits(n)

\* sep.join(parts)
RECURSIVE join(_, _)
join(sep, parts) ==
    IF parts = <<>> THEN <<>>
    ELSE IF Len(parts) = 1 THEN parts[1]
    ELSE parts[1] \o sep \o join(sep, Tail(parts))

----------------------------------------------------------------------------
\* OORParser.calculate_qty_from_range

\* re.sub(r'\D', '', ser)
digits_only(ser) == SelectSeq(ser, is_digit)

\* int(re.sub(r'\D', '', ser)) if ser else 0
extract_number(ser) ==
    IF ser = <<>> THEN [ok |-> TRUE, val |-> 0] ELSE int(digits_only(ser))

\* variant: the ValueError of int('') is not caught
qty_value_error_uncaught == [val |-> 0, raised |-> TRUE]

\* except (ValueError, AttributeError): pass, then return 0
qty_value_error == [val |-> 0, raised |-> FALSE]

\* variant: a range is counted from any beginning number, 0 included
qty_guard_any_beg(beg_num, end_num) == end_num >= beg_num

\* if beg_num > 0 and end_num >= beg_num
qty_guard(beg_num, end_num) == beg_num > 0 /\ end_num >= beg_num

\* the try block once both numbers are extracted
qty_of_numbers(beg_num, end_num) ==
    IF ~beg_num.ok \/ ~end_num.ok THEN qty_value_error
    ELSE IF qty_guard(beg_num.val, end_num.val)
    THEN [val |-> end_num.val - beg_num.val + 1, raised |-> FALSE]
    ELSE [val |-> 0, raised |-> FALSE]

\* calculate_qty_from_range(self, beg_ser, end_ser)
calculate_qty_from_range(beg_ser, end_ser) ==
    qty_of_numbers(extract_number(beg_ser), extract_number(end_ser))

----------------------------------------------------------------------------
\* OORParser.get_total_qty, format_display, get_detailed_breakdown

\* variant: the number of entries instead of the quantity
get_total_qty_count(self) == Len(self.entries)

\* return self.total_qty
get_total_qty(self) == self.total_qty

\* variant: a range is always written with both ends
entry_text_both(e) == str(e[1]) \o << "-" >> \o str(e[2])

\* variant: a range is written by its start only
entry_text_start_only(e) == str(e[1])

\* str(start) if start == end, else f"{start}-{end}"
entry_text(e) ==
    IF e[1] = e[2] THEN str(e[1]) ELSE str(e[1]) \o << "-" >> \o str(e[2])

\* variant: entries joined by a blank only
full_text_blank(es) == join(<< " " >>, [i \in 1..Len(es) |-> entry_text(es[i])])

\* ", ".join(parts)
full_text(es) == join(<< ",", " " >>, [i \in 1..Len(es) |-> entry_text(es[i])])

\* f"{len(self.entries)} entries ({self.total_qty})"
summary_text(self) ==
    str(Len(self.entries))
        \o << " ", "e", "n", "t", "r", "i", "e", "s", " ", "(" >>
        \o str(self.total_qty) \o << ")" >>

\* variant: the text must be strictly shorter than max_length
fits_strict(text, max_length) == Len(text) < max_length

\* variant: the full text is returned whatever its length
fits_always(text, max_length) == TRUE

\* if len(full_text) <= max_length
fits(text, max_length) == Len(text) <= max_length

\* the two returns after full_text is built
display_of(self, text, max_length) ==
    IF fits(text, max_length) THEN text ELSE summary_text(self)

\* format_display(self, max_length)
format_display(self, max_length) ==
    IF self.entries = <<>> THEN <<>>
    ELSE display_of(self, full_text(self.entries), max_length)

\* variant: the count of a range without the + 1
breakdown_count_exclusive(e) == e[2] - e[1]

\* count = end - start + 1
breakdown_count(e) == e[2] - e[1] + 1

\* the line of entry number i (numbered from 1)
breakdown_line(i, e) ==
    IF e[1] = e[2]
    THEN str(i) \o << ".", " " >> \o str(e[1])
             \o << " ", "(", "1", " ", "i", "t", "e", "m", ")" >>
    ELSE str(i) \o << ".", " " >> \o str(e[1]) \o << "-" >> \o str(e[2])
             \o << " ", "(" >> \o str(breakdown_count(e))
             \o << " ", "i", "t", "e", "m", "s", ")" >>

\* f"\nTotal: {self.total_qty} items"
breakdown_total(self) ==
    << "\n", "T", "o", "t", "a", "l", ":", " " >> \o str(self.total_qty)
        \o << " ", "i", "t", "e", "m", "s" >>

\* get_detailed_breakdown(self)
get_detailed_breakdown(self) ==
    IF self.entries = <<>>
    THEN << "N", "o", " ", "e", "n", "t", "r", "i", "e", "s" >>
    ELSE join(<< "\n" >>,
              Append([i \in 1..Len(self.entries) |-> breakdown_line(i, self.entries[i])],
                     breakdown_total(self)))

----------------------------------------------------------------------------
\* OORParser.validate_oor_text

\* the message returned for every rejected text
invalid_format_message ==
    "Invalid OOR format. Use ranges (1000-1010) or singles (1050), separated by commas."

\* variant: blank text is reported as invalid
validate_result_nonblank(text, r) ==
    IF r.ret /\ text # <<>> THEN << TRUE, "" >> ELSE << FALSE, invalid_format_message >>

\* the two returns, given r = the outcome of parser.parse(oor_text)
validate_result(text, r) ==
    IF r.ret THEN << TRUE, "" >> ELSE << FALSE, invalid_format_message >>

\* validate_oor_text(oor_text): parser = OORParser(); parser.parse(oor_text)
validate_oor_text(text) ==
    validate_result(text, parse([entries |-> <<>>, total_qty |-> 0], text))

----------------------------------------------------------------------------
\* The state machine: one parser instance and the texts its caller passes.

\* no call of an operation other than parse to report
NoCall == [op |-> "none", arg |-> <<>>, val |-> <<>>, raised |-> FALSE]

\* __init__: no entries, no quantity; no call made yet
Init ==
    /\ entries = <<>>
    /\ total_qty = 0
    /\ oor_text = <<>>
    /\ ret = "None"
    /\ had_true = FALSE
    /\ out = NoCall
    /\ heap = <<>>
    /\ threads = <<>>

\* The texts a caller passes next: the previous text again, the previous
\* text with one character typed or deleted at its end, or the empty text.
NextTexts(prev) ==
    {prev, <<>>}
        \cup (IF prev = <<>> THEN {} ELSE {SubSeq(prev, 1, Len(prev) - 1)})
        \cup (IF Len(prev) < MaxLen THEN {Append(prev, c) : c \in Alphabet} ELSE {})

\* One call parser.parse(text) on the instance.
Parse(text) ==
    \E r \in {parse([entries |-> entries, total_qty |-> total_qty], text)} :
    /\ entries' = r.self.entries
    /\ total_qty' = r.self.total_qty
    /\ oor_text' = text
    /\ ret' = (IF r.raised THEN "ValueError" ELSE IF r.ret THEN "True" ELSE "False")
    /\ had_true' = (had_true \/ (r.ret /\ ~r.raised))
    /\ out' = NoCall
    /\ UNCHANGED <<heap, threads>>

Next == \E text \in NextTexts(oor_text) : Parse(text)

Spec == Init /\ [][Next]_vars

----------------------------------------------------------------------------
\* All operations of an instance.  The texts are shorter here, because every
\* state of the instance is multiplied by the calls made on it.

\* Longest text handed to parse when the other operations are called too.
MaxOpsLen == 3

\* max_length values below the defaults go from 0 to this one.
MaxDisplayLen == 4

\* def format_display(self, max_length: int = 50)
DefaultMaxLength == 50

\* parser.format_display(max_length=30) in the grid
GridMaxLength == 30

MaxLengths == (0..MaxDisplayLen) \cup {GridMaxLength, DefaultMaxLength}

\* Serial pairs handed to calculate_qty_from_range between the other calls.
OpsSerials == { <<>>, << "1" >>, << "A", "1", "2" >> }

\* the instance as the operations see it
Self == [entries |-> entries, total_qty |-> total_qty]

\* parser = OORParser(): the caller goes on with a new instance
New ==
    /\ entries' = <<>>
    /\ total_qty' = 0
    /\ ret' = "None"
    /\ had_true' = FALSE
    /\ out' = NoCall
    /\ UNCHANGED <<oor_text, heap, threads>>

\* variant: reading the quantity also clears it
GetTotalQtyClearing ==
    /\ out' = [op |-> "get_total_qty", arg |-> <<>>,
               val |-> get_total_qty(Self), raised |-> FALSE]
    /\ total_qty' = 0
    /\ UNCHANGED <<entries, oor_text, ret, had_true, heap, threads>>

\* parser.get_total_qty()
GetTotalQty ==
    /\ out' = [op |-> "get_total_qty", arg |-> <<>>,
               val |-> get_total_qty(Self), raised |-> FALSE]
    /\ UNCHANGED <<entries, total_qty, oor_text, ret, had_true, heap, threads>>

\* parser.format_display(max_length)
FormatDisplay(max_length) ==
    /\ out' = [op |-> "format_display", arg |-> max_length,
               val |-> format_display(Self, max_length), raised |-> FALSE]
    /\ UNCHANGED <<entries, total_qty, oor_text, ret, had_true, heap, threads>>

\* parser.get_detailed_breakdown()
GetDetailedBreakdown ==
    /\ out' = [op |-> "get_detailed_breakdown", arg |-> <<>>,
               val |-> get_detailed_breakdown(Self), raised |-> FALSE]
    /\ UNCHANGED <<entries, total_qty, oor_text, ret, had_true, heap, threads>>

\* OORParser.validate_oor_text(text): a static method with a parser of its own
ValidateOorText(text) ==
    /\ out' = [op |-> "validate_oor_text", arg |-> text,
               val |-> validate_oor_text(text),
               raised |-> parse([entries |-> <<>>, total_qty |-> 0], text).raised]
    /\ UNCHANGED <<entries, total_qty, oor_text, ret, had_true, heap, threads>>

\* parser.calculate_qty_from_range(beg_ser, end_ser)
CalculateQty(beg_ser, end_ser) ==
    \E r \in {calculate_qty_from_range(beg_ser, end_ser)} :
    /\ out' = [op |-> "calculate_qty_from_range", arg |-> <<beg_ser, end_ser>>,
               val |-> r.val, raised |-> r.raised]
    /\ UNCHANGED <<entries, total_qty, oor_text, ret, had_true, heap, threads>>

OpsNext ==
    \/ \E text \in NextTexts(oor_text) : Len(text) <= MaxOpsLen /\ Parse(text)
    \/ New
    \/ GetTotalQty
    \/ \E max_length \in MaxLengths : FormatDisplay(max_length)
    \/ GetDetailedBreakdown
    \/ ValidateOorText(oor_text)
    \/ \E beg_ser \in OpsSerials, end_ser \in OpsSerials : CalculateQty(beg_ser, end_ser)

SpecOps == Init /\ [][OpsNext]_vars

----------------------------------------------------------------------------
\* calculate_qty_from_range alone, over all serial strings up to a length.

\* Longest serial string handed to calculate_qty_from_range.
MaxSerLen == 3

\* Characters of the serial strings: three digits and a letter.
SerialAlphabet == {"0", "1", "2", "A"}

\* the arguments of the latest call (two empty strings before the first)
LastSerials ==
    IF out.op = "calculate_qty_from_range" THEN out.arg ELSE << <<>>, <<>> >>

\* The serial strings a caller passes next: the previous one again, or with
\* one character typed or deleted at its end.
NextSerials(prev) ==
    {prev}
        \cup (IF prev = <<>> THEN {} ELSE {SubSeq(prev, 1, Len(prev) - 1)})
        \cup (IF Len(prev) < MaxSerLen
              THEN {Append(prev, c) : c \in SerialAlphabet} ELSE {})

CalcNext ==
    \/ \E beg_ser \in NextSerials(LastSerials[1]) :
           CalculateQty(beg_ser, LastSerials[2])
    \/ \E end_ser \in NextSerials(LastSerials[2]) :
           CalculateQty(LastSerials[1], end_ser)

SpecCalc == Init /\ [][CalcNext]_vars

----------------------------------------------------------------------------
\* The callers of the parser: save_record of the add/edit dialog (app.py) and
\* the OOR Serial cells of the grid (enhanced_grid_flet.py).  A form is the
\* record of the dialog's field values the quantity depends on:
\* oor_serial, beg_ser, end_ser and qty (the Quantity field), all texts.

\* OORParser(): a new instance
OORParser == [entries |-> <<>>, total_qty |-> 0]

\* if parser.parse(oor_serial_value): qty = parser.get_total_qty()
\* (qty stays 0 otherwise; except Exception: qty = 0)
parsed_qty(r) ==
    IF r.raised THEN 0
    ELSE IF r.ret THEN get_total_qty(r.self)
    ELSE 0

\* try: qty = int(qty_field.value or 0) except ValueError: qty = 0
manual_qty(qty_value) ==
    IF qty_value = <<>> THEN 0
    ELSE IF int(qty_value).ok THEN int(qty_value).val
    ELSE 0

\* qty = parser.calculate_qty_from_range(beg_ser, end_ser)
\* (except Exception: qty = 0)
range_qty_of(r) == IF r.raised THEN 0 ELSE r.val

\* if beg_ser and end_ser
serials_present(beg_ser, end_ser) == beg_ser # <<>> /\ end_ser # <<>>

\* the else branch: no OOR Serial text
fallback_qty(form) ==
    IF serials_present(form.beg_ser, form.end_ser)
    THEN range_qty_of(calculate_qty_from_range(form.beg_ser, form.end_ser))
    ELSE manual_qty(form.qty)

\* variant: the OOR Serial text is used only if it parses
oor_present_valid(oor_serial_value) ==
    strip(oor_serial_value) # <<>> /\ parse(OORParser, oor_serial_value).ret

\* if oor_serial_value.strip()
oor_present(oor_serial_value) == strip(oor_serial_value) # <<>>

\* the quantity save_record computes
save_qty(form) ==
    IF oor_present(form.oor_serial)
    THEN parsed_qty(parse(OORParser, form.oor_serial))
    ELSE fallback_qty(form)

\* record_data, as far as the form above decides it
record_data(form, qty) ==
    [beg_ser |-> form.beg_ser, end_ser |-> form.end_ser,
     oor_serial |-> form.oor_serial, qty |-> qty]

\* self.db.update_item(item_id, record_data) when editing, else
\* self.db.insert_item(record_data)
db_call(is_edit) == IF is_edit THEN "update_item" ELSE "insert_item"

\* the snackbar shown after the database call (db_ok: the call succeeded)
snackbar(is_edit, db_ok) ==
    IF is_edit
    THEN (IF db_ok THEN "Record updated successfully" ELSE "Failed to update record")
    ELSE (IF db_ok THEN "Record added successfully" ELSE "Failed to add record")

\* what follows record_data in save_record: the database call made, the
\* record handed to it, whether the database stored it, the message shown
save_to_db(record, is_edit, db_ok) ==
    [db_call |-> db_call(is_edit),
     record |-> record,
     stored |-> db_ok,
     snackbar |-> snackbar(is_edit, db_ok)]

\* if parser.parse(str(value)): return parser.format_display(max_length=30)
\* return str(value)
cell_text(value, r) ==
    IF r.ret THEN format_display(r.self, GridMaxLength) ELSE value

\* _format_cell_value(value, "OOR Serial") for a text value
format_cell_value(value) ==
    IF value = <<>> THEN <<>> ELSE cell_text(value, parse(OORParser, value))

\* return None
no_tooltip == [none |-> TRUE, text |-> <<>>]

\* variant: the breakdown is shown whatever parse returned
tooltip_of_unchecked(r) == [none |-> FALSE, text |-> get_detailed_breakdown(r.self)]

\* if parser.parse(str(value)): return parser.get_detailed_breakdown()
tooltip_of(r) ==
    IF r.ret THEN [none |-> FALSE, text |-> get_detailed_breakdown(r.self)]
    ELSE no_tooltip

\* _get_cell_tooltip(value, "OOR Serial") for a text value
get_cell_tooltip(value) ==
    IF value # <<>> THEN tooltip_of(parse(OORParser, value)) ELSE no_tooltip

\* The dialog and the grid as a state machine: the user edits one field of
\* the form and saves; the grid then shows the stored OOR Serial text.

\* Longest OOR Serial text typed into the dialog.
MaxAppLen == 3

\* Characters of the OOR Serial field.
AppAlphabet == {"1", "-", ",", " ", "a"}

\* Values of the Beginning Serial and Ending Serial fields.
AppSerials == { <<>>, << "1" >>, << "2" >>, << "A" >> }

\* Values of the Quantity field: left empty, a number, not a number.
QtyValues == { <<>>, << "7" >>, << "x" >> }

\* the fields of a dialog opened for a new record (Quantity shows '0')
NewForm == [oor_serial |-> <<>>, beg_ser |-> <<>>, end_ser |-> <<>>, qty |-> << "0" >>]

\* the form as the latest save found it (a new dialog otherwise)
LastForm == IF out.op = "save_record" THEN out.arg ELSE NewForm

\* The OOR Serial texts the user can turn prev into: one character typed or
\* deleted at its end.
NextOorTexts(prev) ==
    (IF prev = <<>> THEN {} ELSE {SubSeq(prev, 1, Len(prev) - 1)})
        \cup (IF Len(prev) < MaxAppLen
              THEN {Append(prev, c) : c \in AppAlphabet} ELSE {})

\* The forms saved next: the previous one again, or with one field changed.
NextForms(form) ==
    {form}
        \cup {[form EXCEPT !.oor_serial = t] : t \in NextOorTexts(form.oor_serial)}
        \cup {[form EXCEPT !.beg_ser = b] : b \in AppSerials}
        \cup {[form EXCEPT !.end_ser = b] : b \in AppSerials}
        \cup {[form EXCEPT !.qty = q] : q \in QtyValues}

\* The user presses Save in a dialog opened to edit a record or to add one
\* (is_edit); the database call succeeds or fails (db_ok).
SaveRecord(form) ==
    \E record \in {record_data(form, save_qty(form))} :
    \E is_edit \in BOOLEAN, db_ok \in BOOLEAN :
    /\ out' = [op |-> "save_record", arg |-> form,
               val |-> save_to_db(record, is_edit, db_ok), raised |-> FALSE]
    /\ UNCHANGED <<entries, total_qty, oor_text, ret, had_true, heap, threads>>

\* the grid has a stored OOR Serial text to show: the one just stored, or
\* the one it showed last
HasStoredText ==
    \/ out.op = "save_record" /\ out.val.stored
    \/ out.op \in {"_format_cell_value", "_get_cell_tooltip"}

StoredText ==
    IF out.op = "save_record" THEN out.val.record.oor_serial ELSE out.arg

\* the grid formats the cell
FormatCellValue(value) ==
    /\ out' = [op |-> "_format_cell_value", arg |-> value,
               val |-> format_cell_value(value), raised |-> FALSE]
    /\ UNCHANGED <<entries, total_qty, oor_text, ret, had_true, heap, threads>>

\* the grid asks for the tooltip of the cell
GetCellTooltip(value) ==
    /\ out' = [op |-> "_get_cell_tooltip", arg |-> value,
               val |-> get_cell_tooltip(value), raised |-> FALSE]
    /\ UNCHANGED <<entries, total_qty, oor_text, ret, had_true, heap, threads>>

AppNext ==
    \/ \E form \in NextForms(LastForm) : SaveRecord(form)
    \/ HasStoredText /\ FormatCellValue(StoredText)
    \/ HasStoredText /\ GetCellTooltip(StoredText)

SpecApp == Init /\ [][AppNext]_vars

----------------------------------------------------------------------------
\* Concurrent callers.  Each caller runs one parse call; the call is cut
\* into steps at every access to a field of the instance, and the steps of
\* the callers interleave in any order.  self.total_qty += qty is a read
\* followed by a write.

Threads == {1, 2}

\* Longest text of the first caller.
MaxConcLen == 3

\* Characters of the first caller's text.
ConcAlphabet == {"1", "-", ",", "a"}

RECURSIVE TextsUpTo(_)
TextsUpTo(n) ==
    IF n = 0 THEN { <<>> }
    ELSE TextsUpTo(n - 1)
             \cup {Append(t, c) : t \in {u \in TextsUpTo(n - 1) : Len(u) = n - 1},
                                  c \in ConcAlphabet}

\* Texts of the second caller: two entries, a failure after one entry, blank.
OtherTexts ==
    { <<"1", ",", "1", "-", "2">>, <<"2", ",", "a">>, <<" ">> }

\* variant: the callers share one instance
instance_shared(t) == 1

\* parser = OORParser(): each caller parses on an instance of its own
instance_of(t) == t

\* a caller about to enter parse(text)
call_parse(text) ==
    [text |-> text, pc |-> "reset_entries", parts |-> <<>>,
     entry |-> <<>>, qty |-> 0, acc |-> 0, ret |-> "None"]

ConcInit ==
    /\ entries = <<>>
    /\ total_qty = 0
    /\ oor_text = <<>>
    /\ ret = "None"
    /\ had_true = FALSE
    /\ out = NoCall
    /\ heap = [i \in Threads |-> OORParser]
    /\ \E text \in TextsUpTo(MaxConcLen), other \in OtherTexts :
           threads = [t \in Threads |-> call_parse(IF t = 1 THEN text ELSE other)]

\* self.entries = []
ResetEntries(t) ==
    /\ threads[t].pc = "reset_entries"
    /\ heap' = [heap EXCEPT ![instance_of(t)].entries = <<>>]
    /\ threads' = [threads EXCEPT ![t].pc = "reset_qty"]
    /\ UNCHANGED <<entries, total_qty, oor_text, ret, had_true, out>>

\* self.total_qty = 0, then the blank test and the split
ResetQty(t) ==
    /\ threads[t].pc = "reset_qty"
    /\ heap' = [heap EXCEPT ![instance_of(t)].total_qty = 0]
    /\ threads' =
           IF is_blank(threads[t].text)
           THEN [threads EXCEPT ![t].pc = "done", ![t].ret = "True"]
           ELSE [threads EXCEPT ![t].pc = "loop",
                                ![t].parts = re_split(threads[t].text)]
    /\ UNCHANGED <<entries, total_qty, oor_text, ret, had_true, out>>

\* The loop up to the first access to the instance: the end of the loop
\* (return True), a skipped part, a rejected part (return False), or a
\* token read into the entry and the quantity it will add.
Loop(t) ==
    /\ threads[t].pc = "loop"
    /\ IF threads[t].parts = <<>>
       THEN threads' = [threads EXCEPT ![t].pc = "done", ![t].ret = "True"]
       ELSE \E r \in {parse_part(OORParser, Head(threads[t].parts))} :
            threads' =
                IF r.failed
                THEN [threads EXCEPT ![t].pc = "done",
                          ![t].ret = IF r.raised THEN "ValueError" ELSE "False"]
                ELSE IF r.self.entries = <<>>
                THEN [threads EXCEPT ![t].parts = Tail(threads[t].parts)]
                ELSE [threads EXCEPT ![t].pc = "append",
                                     ![t].entry = r.self.entries[1],
                                     ![t].qty = r.self.total_qty]
    /\ UNCHANGED <<entries, total_qty, oor_text, ret, had_true, out, heap>>

\* self.entries.append(...)
AppendEntry(t) ==
    /\ threads[t].pc = "append"
    /\ heap' = [heap EXCEPT ![instance_of(t)].entries = Append(@, threads[t].entry)]
    /\ threads' = [threads EXCEPT ![t].pc = "load_qty"]
    /\ UNCHANGED <<entries, total_qty, oor_text, ret, had_true, out>>

\* self.total_qty += qty: the read
LoadQty(t) ==
    /\ threads[t].pc = "load_qty"
    /\ threads' = [threads EXCEPT ![t].pc = "store_qty",
                                  ![t].acc = heap[instance_of(t)].total_qty]
    /\ UNCHANGED <<entries, total_qty, oor_text, ret, had_true, out, heap>>

\* self.total_qty += qty: the write, and on to the next part
StoreQty(t) ==
    /\ threads[t].pc = "store_qty"
    /\ heap' = [heap EXCEPT ![instance_of(t)].total_qty =
                                threads[t].acc + threads[t].qty]
    /\ threads' = [threads EXCEPT ![t].pc = "loop",
                                  ![t].parts = Tail(threads[t].parts)]
    /\ UNCHANGED <<entries, total_qty, oor_text, ret, had_true, out>>

ConcNext ==
    \E t \in Threads :
        \/ ResetEntries(t)
        \/ ResetQty(t)
        \/ Loop(t)
        \/ AppendEntry(t)
        \/ LoadQty(t)
        \/ StoreQty(t)

SpecConc == ConcInit /\ [][ConcNext]_vars

----------------------------------------------------------------------------
\* Vocabulary of the properties, stated on the text itself (positions of
\* separators, hyphens and blanks) rather than through the parser's loop.

Min(S) == CHOOSE x \in S : \A y \in S : x <= y

Max(S) == CHOOSE x \in S : \A y \in S : y <= x

\* s without its leading and trailing blanks
Trim(s) ==
    LET N == {i \in 1..Len(s) : s[i] # " "} IN
    IF N = {} THEN <<>> ELSE SubSeq(s, Min(N), Max(N))

\* the text is empty or consists of blanks only
IsBlankText(s) == \A i \in 1..Len(s) : s[i] = " "

\* The pieces of the text from position from on, cut at every ',' or ';'
\* found at position i or later.
RECURSIVE PiecesFrom(_, _, _)
PiecesFrom(text, from, i) ==
    IF i > Len(text) THEN << SubSeq(text, from, Len(text)) >>
    ELSE IF text[i] = "," \/ text[i] = ";"
         THEN << SubSeq(text, from, i - 1) >> \o PiecesFrom(text, i + 1, i + 1)
         ELSE PiecesFrom(text, from, i + 1)

\* The pieces of the text between consecutive ',' / ';' (and the two ends).
PartsOf(text) == PiecesFrom(text, 1, 1)

\* The non-empty trimmed tokens of the text, in order of appearance.
TokensOf(text) ==
    LET Kept(parts) == SelectSeq(parts, LAMBDA p : ~IsBlankText(p))
        Trimmed(kept) == [k \in 1..Len(kept) |-> Trim(kept[k])]
    IN  Trimmed(Kept(PartsOf(text)))

HyphenCount(tok) == Cardinality({i \in 1..Len(tok) : tok[i] = "-"})

\* the two sides of a token with exactly one hyphen
LeftOf(tok) == SubSeq(tok, 1, Min({i \in 1..Len(tok) : tok[i] = "-"}) - 1)

RightOf(tok) == SubSeq(tok, Min({i \in 1..Len(tok) : tok[i] = "-"}) + 1, Len(tok))

\* one or more decimal digits
IsDigits(s) ==
    /\ s # <<>>
    /\ \A i \in 1..Len(s) : s[i] \in {"0", "1", "2", "3", "4", "5", "6", "7", "8", "9"}

\* A base-10 integer as a serial number is written: decimal digits.  A
\* leading plus sign is allowed as well, so that only the digits decide.
IsDecimal(s) == IsDigits(s) \/ (s # <<>> /\ Head(s) = "+" /\ IsDigits(Tail(s)))

RECURSIVE DigitsValue(_)
DigitsValue(s) ==
    IF s = <<>> THEN 0
    ELSE 10 * DigitsValue(SubSeq(s, 1, Len(s) - 1)) + digit_value(s[Len(s)])

DecimalValue(s) == IF Head(s) = "+" THEN DigitsValue(Tail(s)) ELSE DigitsValue(s)

\* a token of two integers joined by one hyphen (order not yet considered)
IsRangeToken(tok) ==
    /\ HyphenCount(tok) = 1
    /\ int(LeftOf(tok)).ok
    /\ int(RightOf(tok)).ok

IsReversedRange(tok) ==
    IsRangeToken(tok) /\ int(LeftOf(tok)).val > int(RightOf(tok)).val

IsSingleToken(tok) == HyphenCount(tok) = 0 /\ int(tok).ok

\* a token the grammar accepts
IsValidToken(tok) ==
    IsSingleToken(tok) \/ (IsRangeToken(tok) /\ ~IsReversedRange(tok))

\* the interval a valid token denotes
IntervalOf(tok) ==
    IF HyphenCount(tok) = 0 THEN <<int(tok).val, int(tok).val>>
    ELSE <<int(LeftOf(tok)).val, int(RightOf(tok)).val>>

\* how many tokens precede the first invalid one (all of them if none is)
ValidPrefixLen(toks) ==
    IF \A k \in 1..Len(toks) : IsValidToken(toks[k]) THEN Len(toks)
    ELSE Min({k \in 1..Len(toks) : ~IsValidToken(toks[k])}) - 1

RECURSIVE SumSizes(_)
SumSizes(es) ==
    IF es = <<>> THEN 0 ELSE (Head(es)[2] - Head(es)[1] + 1) + SumSizes(Tail(es))

\* parse has been called on the instance
Called == ret # "None"

----------------------------------------------------------------------------
\* C1: whenever parse returns false the instance is left empty
\* (entries = [] and total_qty = 0), even if earlier tokens were valid.
C1_FailedParseLeavesEmpty ==
    ret = "False" => entries = <<>> /\ total_qty = 0

\* C2: in every reachable state total_qty equals the sum of
\* (end - start + 1) over the intervals in entries.
C2_TotalIsSumOfSizes == total_qty = SumSizes(entries)

\* a failed call that left the range of its first token behind, with its size
C2_Witness ==
    /\ oor_text = <<"1", "-", "2", ",", "a">>
    /\ ret = "False"
    /\ entries = << <<1, 2>> >>
    /\ total_qty = 2

\* C3: every stored interval has start <= end; a range token with
\* start > end is never stored, neither as written nor swapped (nothing is
\* stored for it or for any token after it).
C3_EntriesOrdered ==
    /\ \A i \in 1..Len(entries) : entries[i][1] <= entries[i][2]
    /\ \A toks \in {TokensOf(oor_text)} :
       \A k \in 1..Len(toks) : IsReversedRange(toks[k]) => Len(entries) < k

\* a call whose second token is a reversed range: only the first is stored
C3_Witness ==
    /\ oor_text = <<"1", ",", "2", "-", "1">>
    /\ ret = "False"
    /\ entries = << <<1, 1>> >>

\* C4: parse returns true if and only if every non-empty trimmed token is a
\* base-10 integer, or two base-10 integers (each possibly surrounded by
\* blanks) joined by exactly one hyphen with start <= end.
C4_TrueIffTokensWellFormed ==
    LET WellFormed(tok) ==
            \/ IsDecimal(tok)
            \/ /\ HyphenCount(tok) = 1
               /\ IsDecimal(Trim(LeftOf(tok)))
               /\ IsDecimal(Trim(RightOf(tok)))
               /\ DecimalValue(Trim(LeftOf(tok))) <= DecimalValue(Trim(RightOf(tok)))
    IN  \A toks \in {TokensOf(oor_text)} :
        Called => (ret = "True" <=> \A k \in 1..Len(toks) : WellFormed(toks[k]))

\* C5: after a successful parse entries is exactly the sequence of the
\* intervals of the non-empty tokens in input order (n -> (n, n),
\* a-b -> (a, b)), unsorted and unmerged, and every token contributes its
\* full size to total_qty.
C5_EntriesInInputOrder ==
    \A toks \in {TokensOf(oor_text)} :
    ret = "True" =>
        /\ entries = [k \in 1..Len(toks) |-> IntervalOf(toks[k])]
        /\ total_qty = SumSizes([k \in 1..Len(toks) |-> IntervalOf(toks[k])])

\* a single followed by a range that starts below it and overlaps it
C5_Witness ==
    /\ oor_text = <<"2", ",", "1", "-", "2">>
    /\ ret = "True"
    /\ entries = << <<2, 2>>, <<1, 2>> >>
    /\ total_qty = 3

\* C6: the state a call leaves depends only on its text: it is the state
\* the same call leaves on a freshly constructed instance; and a second call
\* with the same valid text leaves entries and total_qty as they were.
C6_StateDependsOnTextOnly ==
    [][\A r \in {parse([entries |-> <<>>, total_qty |-> 0], oor_text')} :
       /\ entries' = r.self.entries
       /\ total_qty' = r.self.total_qty
       /\ ret' = (IF r.ret THEN "True" ELSE "False")
       /\ (oor_text' = oor_text /\ ret = "True") =>
              (entries' = entries /\ total_qty' = total_qty /\ ret' = "True")]_vars

\* a text of three characters is reached only by calls on an instance that
\* already held the entry of its first token; nothing has accumulated
C6_Witness ==
    /\ oor_text = <<"1", ",", "2">>
    /\ ret = "True"
    /\ entries = << <<1, 1>>, <<2, 2>> >>
    /\ total_qty = 2

\* C7: for empty or blank-only text parse returns true and leaves
\* entries = [] and total_qty = 0, whatever the instance held before.
C7_BlankTextSucceedsEmpty ==
    (Called /\ IsBlankText(oor_text)) =>
        (ret = "True" /\ entries = <<>> /\ total_qty = 0)

\* a call with a text of two blanks has returned
C7_Witness ==
    /\ oor_text = <<" ", " ">>
    /\ ret = "True"
    /\ entries = <<>>

\* C8: a token that is a range with start > end makes parse return false
\* (it is not swapped); a range with start = end is accepted as one entry
\* of quantity 1.
C8_ReversedRejectedDegenerateAccepted ==
    LET Degenerate(tok) ==
            IsRangeToken(tok) /\ int(LeftOf(tok)).val = int(RightOf(tok)).val
    IN  \A toks \in {TokensOf(oor_text)} :
        Called =>
        /\ (\E k \in 1..Len(toks) : IsReversedRange(toks[k])) => ret = "False"
        /\ (Len(toks) = 1 /\ IsReversedRange(toks[1])) => entries = <<>>
        /\ (toks # <<>> /\ \A k \in 1..Len(toks) : Degenerate(toks[k])) =>
               /\ ret = "True"
               /\ Len(entries) = Len(toks)
               /\ total_qty = Len(toks)
               /\ \A k \in 1..Len(toks) : entries[k][1] = entries[k][2]

\* the degenerate range 2-2 was parsed
C8_Witness ==
    /\ oor_text = <<"2", "-", "2">>
    /\ ret = "True"
    /\ entries = << <<2, 2>> >>
    /\ total_qty = 1

\* the reversed range 2-1 was rejected
C8_WitnessReversed ==
    /\ oor_text = <<"2", "-", "1">>
    /\ ret = "False"

\* C9: parse returns false whenever some token contains a hyphen without
\* being two integers around one hyphen: a lone hyphen, more than one
\* hyphen, or a missing side.
C9_MalformedHyphenTokenRejected ==
    LET Malformed(tok) ==
            /\ HyphenCount(tok) >= 1
            /\ \/ HyphenCount(tok) > 1
               \/ IsBlankText(LeftOf(tok))
               \/ IsBlankText(RightOf(tok))
               \/ ~IsRangeToken(tok)
    IN  \A toks \in {TokensOf(oor_text)} :
        Called =>
        ((\E k \in 1..Len(toks) : Malformed(toks[k])) => ret = "False")

\* the token 1-2-1, whose first two pieces alone would be a range
C9_Witness ==
    /\ oor_text = <<"1", "-", "2", "-", "1">>
    /\ ret = "False"

\* C10: empty and blank-only pieces between separators are skipped: a false
\* return is always due to a non-blank token that is invalid, and the
\* entries and the quantity are those of the non-blank tokens alone (the
\* valid ones up to the first invalid one), so a blank piece adds nothing.
C10_BlankPartsSkipped ==
    \A toks \in {TokensOf(oor_text)} :
    \A n \in {ValidPrefixLen(toks)} :
    Called =>
        /\ ret = "False" => n < Len(toks)
        /\ Len(entries) = n
        /\ total_qty = SumSizes([k \in 1..n |-> IntervalOf(toks[k])])

\* leading, doubled and trailing separators around one number
C10_Witness ==
    /\ oor_text = <<",", " ", ";", "1", ",">>
    /\ ret = "True"
    /\ entries = << <<1, 1>> >>
    /\ total_qty = 1

----------------------------------------------------------------------------
\* Vocabulary of the properties about the other operations.

\* a parser as __init__ leaves it
Fresh == [entries |-> <<>>, total_qty |-> 0]

\* every non-empty token of the text is one the grammar accepts
AllTokensValid(text) ==
    \A toks \in {TokensOf(text)} : \A k \in 1..Len(toks) : IsValidToken(toks[k])

\* the quantity of the valid tokens that precede the first invalid one
PrefixQty(text) ==
    LET Qty(toks, n) == SumSizes([k \in 1..n |-> IntervalOf(toks[k])])
        Upto(toks) == Qty(toks, ValidPrefixLen(toks))
    IN  Upto(TokensOf(text))

\* the number written in a serial string: its digits read as one base-10
\* number, 0 if it has none
SerialNumber(ser) ==
    DigitsValue(SelectSeq(ser, LAMBDA c : c \in {"0", "1", "2", "3", "4", "5", "6", "7", "8", "9"}))

HasDigit(ser) ==
    \E i \in 1..Len(ser) : ser[i] \in {"0", "1", "2", "3", "4", "5", "6", "7", "8", "9"}

\* "start-end" when start # end, "start" otherwise
EntryAsText(e) ==
    IF e[1] # e[2] THEN str(e[1]) \o << "-" >> \o str(e[2]) ELSE str(e[1])

\* the texts of the entries, each after the first preceded by ", "
RECURSIVE EntriesAsText(_)
EntriesAsText(es) ==
    IF es = <<>> THEN <<>>
    ELSE IF Len(es) = 1 THEN EntryAsText(es[1])
    ELSE EntriesAsText(SubSeq(es, 1, Len(es) - 1))
             \o << ",", " " >> \o EntryAsText(es[Len(es)])

\* "<N> entries (<total_qty>)"
SummaryAsText(n, qty) ==
    str(n) \o << " ", "e", "n", "t", "r", "i", "e", "s", " ", "(" >>
        \o str(qty) \o << ")" >>

\* "<i>. <start> (1 item)" or "<i>. <start>-<end> (<end-start+1> items)"
LineAsText(i, e) ==
    IF e[1] = e[2]
    THEN str(i) \o << ".", " " >> \o str(e[1])
             \o << " ", "(", "1", " ", "i", "t", "e", "m", ")" >>
    ELSE str(i) \o << ".", " " >> \o str(e[1]) \o << "-" >> \o str(e[2])
             \o << " ", "(" >> \o str(e[2] - e[1] + 1)
             \o << " ", "i", "t", "e", "m", "s", ")" >>

\* the lines of entries i.. , each ended by a newline
RECURSIVE LinesAsText(_, _)
LinesAsText(es, i) ==
    IF i > Len(es) THEN <<>>
    ELSE LineAsText(i, es[i]) \o << "\n" >> \o LinesAsText(es, i + 1)

\* the lines, a blank line, "Total: <qty> items"
BreakdownAsText(es, qty) ==
    LinesAsText(es, 1) \o << "\n", "T", "o", "t", "a", "l", ":", " " >>
        \o str(qty) \o << " ", "i", "t", "e", "m", "s" >>

----------------------------------------------------------------------------
\* C11: parse never raises: every call ends by returning True or False,
\* malformed input included.
C11_ParseNeverRaises == Called => ret \in {"True", "False"}

\* int() refused the second token; the call returned False
C11_Witness ==
    /\ oor_text = <<"1", ",", "a">>
    /\ ret = "False"

\* C12: validate_oor_text(text) returns (True, "") exactly when parse accepts
\* the text, and otherwise (False, m) with m one fixed non-empty message.
C12_ValidateMatchesParse ==
    out.op = "validate_oor_text" =>
        /\ ~out.raised
        /\ IF AllTokensValid(out.arg)
           THEN out.val = << TRUE, "" >>
           ELSE out.val = << FALSE, invalid_format_message >>
        /\ invalid_format_message # ""
        /\ (Called /\ out.arg = oor_text) => (out.val[1] <=> ret = "True")

\* a text with a missing range side was validated and rejected
C12_Witness ==
    /\ out.op = "validate_oor_text"
    /\ out.arg = <<"1", "-">>
    /\ out.val[1] = FALSE

\* C13: calculate_qty_from_range reads the digits of each string as a number
\* (0 without digits) and returns end - beg + 1 when beg > 0 and end >= beg,
\* and 0 in every other case.
C13_QtyFromRange ==
    out.op = "calculate_qty_from_range" =>
        \A beg \in {SerialNumber(out.arg[1])} :
        \A end \in {SerialNumber(out.arg[2])} :
        out.val = (IF beg > 0 /\ end >= beg THEN end - beg + 1 ELSE 0)

\* ("A10", "A12") gave 3
C13_Witness ==
    /\ out.op = "calculate_qty_from_range"
    /\ out.arg = << <<"A", "1", "0">>, <<"A", "1", "2">> >>
    /\ out.val = 3

\* C14: calculate_qty_from_range never raises and returns an integer, which
\* is 0 whenever one of the two strings holds no number.
C14_QtyNeverRaises ==
    out.op = "calculate_qty_from_range" =>
        /\ ~out.raised
        /\ out.val \in Nat
        /\ (~HasDigit(out.arg[1]) \/ ~HasDigit(out.arg[2])) => out.val = 0

\* a beginning serial without digits (int('') raises inside) gave 0
C14_Witness ==
    /\ out.op = "calculate_qty_from_range"
    /\ out.arg = << <<"A">>, <<"1">> >>
    /\ out.val = 0
    /\ ~out.raised

\* C15: with entries, format_display(max_length) returns the entries joined
\* by ", " when that text is at most max_length long, and otherwise exactly
\* "<N> entries (<total_qty>)".
C15_FormatDisplay ==
    (out.op = "format_display" /\ entries # <<>>) =>
        \A text \in {EntriesAsText(entries)} :
        out.val = (IF Len(text) <= out.arg THEN text
                   ELSE SummaryAsText(Len(entries), total_qty))

\* "1, 2" is four characters long: max_length = 3 gives the summary
C15_Witness ==
    /\ out.op = "format_display"
    /\ out.arg = 3
    /\ entries = << <<1, 1>>, <<2, 2>> >>
    /\ out.val = <<"2", " ", "e", "n", "t", "r", "i", "e", "s", " ", "(", "2", ")">>

\* the same entries with max_length = 4: the text itself
C15_WitnessFull ==
    /\ out.op = "format_display"
    /\ out.arg = 4
    /\ out.val = <<"1", ",", " ", "2">>

\* C16: after a successful parse whose text fits max_length, parsing the
\* output of format_display (on a new parser or on the same one) returns
\* True and gives the same total_qty.
C16_RoundTrip ==
    (/\ out.op = "format_display"
     /\ ret = "True"
     /\ Len(EntriesAsText(entries)) <= out.arg) =>
        /\ \A r \in {parse(Fresh, out.val)} :
               r.ret /\ ~r.raised /\ r.self.total_qty = total_qty
        /\ \A r \in {parse(Self, out.val)} :
               r.ret /\ ~r.raised /\ r.self.total_qty = total_qty

\* "1-2" parsed, displayed in full
C16_Witness ==
    /\ out.op = "format_display"
    /\ ret = "True"
    /\ oor_text = <<"1", ";", "2">>
    /\ out.val = <<"1", ",", " ", "2">>

\* C17: on an instance on which no parse call has returned True yet,
\* format_display returns the empty string for every max_length.
C17_NoDisplayBeforeSuccess ==
    (out.op = "format_display" /\ ~had_true) => out.val = <<>>

\* C18: get_total_qty returns 0 on a fresh parser, and after parse calls the
\* quantity computed by the latest call (that of the valid tokens its
\* text starts with), nothing carried over.
C18_GetTotalQty ==
    out.op = "get_total_qty" =>
        /\ ~Called => out.val = 0
        /\ Called => out.val = PrefixQty(oor_text)

\* the quantity of the range 1-2, read after the calls that led to it
C18_Witness ==
    /\ out.op = "get_total_qty"
    /\ oor_text = <<"1", "-", "2">>
    /\ out.val = 2

\* C19: get_detailed_breakdown returns "No entries" without entries, and
\* otherwise one numbered line per entry in order, a blank line and
\* "Total: <total_qty> items"; the counts of the lines add up to the total.
C19_DetailedBreakdown ==
    out.op = "get_detailed_breakdown" =>
        /\ entries = <<>> =>
               out.val = << "N", "o", " ", "e", "n", "t", "r", "i", "e", "s" >>
        /\ entries # <<>> =>
               /\ out.val = BreakdownAsText(entries, total_qty)
               /\ SumSizes(entries) = total_qty

\* the breakdown of one range
C19_Witness ==
    /\ out.op = "get_detailed_breakdown"
    /\ entries = << <<1, 2>> >>
    /\ out.val = <<"1", ".", " ", "1", "-", "2", " ", "(", "2", " ", "i", "t",
                   "e", "m", "s", ")", "\n", "\n", "T", "o", "t", "a", "l", ":",
                   " ", "2", " ", "i", "t", "e", "m", "s">>

\* the breakdown of two singles, numbered 1 and 2
C19_WitnessTwoLines ==
    /\ out.op = "get_detailed_breakdown"
    /\ entries = << <<2, 2>>, <<1, 1>> >>

\* C20: only parse changes entries and total_qty: a call of get_total_qty,
\* format_display, get_detailed_breakdown, calculate_qty_from_range or
\* validate_oor_text leaves both as they were.
C20_OnlyParseChangesFields ==
    [][out'.op # "none" => (entries' = entries /\ total_qty' = total_qty)]_vars

\* calculate_qty_from_range was called on an instance that holds a range
C20_Witness ==
    /\ out.op = "calculate_qty_from_range"
    /\ entries = << <<1, 2>> >>
    /\ total_qty = 2

\* C24: when every parse call runs on a parser instance of its own, each
\* call ends, however the calls interleave, with the return value, entries
\* and total_qty of that call run alone.
C24_OwnInstanceNoInterference ==
    \A t \in Threads :
        threads[t].pc = "done" =>
            \A r \in {parse(OORParser, threads[t].text)} :
                /\ threads[t].ret = (IF r.ret THEN "True" ELSE "False")
                /\ heap[instance_of(t)] = r.self

\* the second caller has finished "1,1-2" while the first is between the
\* read and the write of its total_qty += qty
C24_Witness ==
    /\ threads[1].pc = "store_qty"
    /\ threads[1].text = <<"1", "-", "1">>
    /\ threads[2].pc = "done"
    /\ threads[2].ret = "True"
    /\ heap[2] = [entries |-> << <<1, 1>>, <<1, 2>> >>, total_qty |-> 3]

\* C25: when parse returns False, entries holds the intervals of the valid
\* tokens that precede the first invalid token, in order, and total_qty the
\* sum of their sizes; nothing of the tokens after it is stored.
C25_FailedParseKeepsValidPrefix ==
    ret = "False" =>
        \A toks \in {TokensOf(oor_text)} :
        \A n \in {ValidPrefixLen(toks)} :
            /\ n < Len(toks)
            /\ entries = [k \in 1..n |-> IntervalOf(toks[k])]
            /\ total_qty = SumSizes([k \in 1..n |-> IntervalOf(toks[k])])

\* the invalid token stands between two valid ones: only the first is stored
C25_Witness ==
    /\ oor_text = <<"1", ",", "a", ",", "2">>
    /\ ret = "False"
    /\ entries = << <<1, 1>> >>
    /\ total_qty = 1

\* C26: every interval in entries has start >= 0: a token with a minus sign
\* goes to the range branch, where a leading '-' leaves an empty first side.
C26_NoNegativeStart ==
    \A i \in 1..Len(entries) : entries[i][1] >= 0

\* "-1" and "1,-2" were parsed: rejected, nothing negative stored
C26_Witness ==
    /\ oor_text = <<"1", ",", "-", "2">>
    /\ ret = "False"
    /\ entries = << <<1, 1>> >>

\* C27: a text that is not blank but holds only separators and blanks is
\* accepted with no entries and quantity 0.
C27_SeparatorsOnlyAccepted ==
    (/\ Called
     /\ ~IsBlankText(oor_text)
     /\ \A i \in 1..Len(oor_text) : oor_text[i] \in {",", ";", " "}) =>
        ret = "True" /\ entries = <<>> /\ total_qty = 0

\* " ; , " was parsed
C27_Witness ==
    /\ oor_text = <<" ", ";", " ", ",", " ">>
    /\ ret = "True"
    /\ entries = <<>>

\* C28: the full output of format_display is a normal form: parsing it gives
\* the same entries again, and format_display with the same max_length on
\* the result gives the same string.
C28_DisplayIsNormalForm ==
    (out.op = "format_display" /\ Len(EntriesAsText(entries)) <= out.arg) =>
        \A r \in {parse(Fresh, out.val)} :
            /\ r.ret
            /\ r.self.entries = entries
            /\ format_display(r.self, out.arg) = out.val

\* the display "1-2" of the text "1-2" written as it is
C28_Witness ==
    /\ out.op = "format_display"
    /\ out.arg = 3
    /\ entries = << <<1, 2>> >>
    /\ out.val = <<"1", "-", "2">>

\* C29: format_display(max_length) returns a string longer than max_length
\* only when it is the summary "<N> entries (<total_qty>)", which is never
\* cut.
C29_OnlySummaryExceeds ==
    (out.op = "format_display" /\ Len(out.val) > out.arg) =>
        /\ entries # <<>>
        /\ Len(EntriesAsText(entries)) > out.arg
        /\ out.val = SummaryAsText(Len(entries), total_qty)

\* max_length = 0: the summary of one entry, thirteen characters long
C29_Witness ==
    /\ out.op = "format_display"
    /\ out.arg = 0
    /\ out.val = <<"1", " ", "e", "n", "t", "r", "i", "e", "s", " ", "(", "1", ")">>

----------------------------------------------------------------------------
\* Vocabulary of the properties about the dialog and the grid.

\* the intervals of the tokens of a text all of whose tokens are valid
IntervalsOf(text) ==
    LET Of(toks) == [k \in 1..Len(toks) |-> IntervalOf(toks[k])]
    IN  Of(TokensOf(text))

\* what format_display shows of these entries within max_length
DisplayAsText(es, max_length) ==
    IF es = <<>> THEN <<>>
    ELSE IF Len(EntriesAsText(es)) <= max_length THEN EntriesAsText(es)
    ELSE SummaryAsText(Len(es), SumSizes(es))

\* the breakdown of these entries
TooltipAsText(es) ==
    IF es = <<>> THEN << "N", "o", " ", "e", "n", "t", "r", "i", "e", "s" >>
    ELSE BreakdownAsText(es, SumSizes(es))

\* C21: in save_record, an OOR Serial text that is not blank and does not
\* parse blocks the save: no insert_item / update_item is made and the fixed
\* validation message is shown.
C21_InvalidOorBlocksSave ==
    (/\ out.op = "save_record"
     /\ ~IsBlankText(out.arg.oor_serial)
     /\ ~AllTokensValid(out.arg.oor_serial)) =>
        /\ out.val.db_call \notin {"insert_item", "update_item"}
        /\ out.val.snackbar = invalid_format_message

\* C22: in save_record with an empty OOR Serial text the saved quantity is
\* that of calculate_qty_from_range on the two serial fields, and the value
\* of the Quantity field when the serial fields are absent or invalid (the
\* range helper gives 0).
C22_EmptyOorFallsBack ==
    (out.op = "save_record" /\ out.arg.oor_serial = <<>>) =>
        \A r \in {calculate_qty_from_range(out.arg.beg_ser, out.arg.end_ser)} :
        out.val.record.qty =
            (IF r.val # 0 THEN r.val ELSE manual_qty(out.arg.qty))

C23_WitnessCell ==
    /\ out.op = "_format_cell_value"
    /\ out.arg = <<"1", ",", "a">>
    /\ out.val = <<"1", ",", "a">>

\* a blank, non-empty stored text: parsed, "No entries"
C23_WitnessBlank ==
    /\ out.op = "_get_cell_tooltip"
    /\ out.arg = <<" ">>
    /\ ~out.val.none

\* C30: in save_record with an OOR Serial text that is not blank, the serial
\* fields and the Quantity field play no part: the saved qty is the
\* parser's total if the text parses and 0 otherwise, and the text is stored
\* as typed.
C30_OorTextDecidesQty ==
    (out.op = "save_record" /\ ~IsBlankText(out.arg.oor_serial)) =>
        /\ out.val.record.qty =
               (IF AllTokensValid(out.arg.oor_serial)
                THEN SumSizes(IntervalsOf(out.arg.oor_serial))
                ELSE 0)
        /\ out.val.record.oor_serial = out.arg.oor_serial
        /\ out.val.db_call \in {"insert_item", "update_item"}

\* "1,a" does not parse; the serial fields would give 2 and the Quantity
\* field 7, and 0 is saved
C30_Witness ==
    /\ out.op = "save_record"
    /\ out.arg = [oor_serial |-> <<"1", ",", "a">>, beg_ser |-> << "1" >>,
                  end_ser |-> << "2" >>, qty |-> << "7" >>]
    /\ out.val.record.qty = 0
    /\ out.val.record.oor_serial = <<"1", ",", "a">>

\* "1,1" parses: its quantity 2 is saved
C30_WitnessParsed ==
    /\ out.op = "save_record"
    /\ out.arg.oor_serial = <<"1", ",", "1">>
    /\ out.arg.qty = << "7" >>
    /\ out.val.record.qty = 2

====
